---- MODULE Spec2Model ----
(***************************************************************************)
(* Model of backend/api.py of the transport sentiment service: the helper  *)
(* functions (determine_transport_type, determine_sentiment_score,         *)
(* extract_state_from_region) and the two request handlers get_tweets      *)
(* (GET /api/tweets) and get_states_summary (GET /api/states).             *)
(*                                                                         *)
(* Python strings are sequences of one-character strings; a character      *)
(* outside ASCII is written by its code point ("U0178").  A dictionary     *)
(* entry of a row is a field [tag, v]: tag "absent" (no such key), "null"  *)
(* (key present, value None) or "val" (value v).                           *)
(***************************************************************************)
EXTENDS Integers, Sequences, FiniteSets, TLC

\* ---------------------------------------------------------------- bounds
MaxFrags  == 2      \* a text is a concatenation of at most MaxFrags fragments
MaxTweets == 2      \* rows returned by db.get_recent_tweets
MaxRows   == 2      \* rows returned by db.get_state_summary

\* ------------------------------------------------------- python strings
UpperAlpha == <<"A","B","C","D","E","F","G","H","I","J","K","L","M",
                "N","O","P","Q","R","S","T","U","V","W","X","Y","Z",
                "U00C0","U0178">>
LowerAlpha == <<"a","b","c","d","e","f","g","h","i","j","k","l","m",
                "n","o","p","q","r","s","t","u","v","w","x","y","z",
                "U00E0","U00FF">>

\* str.lower() on one character: a cased character maps to its lower-case
\* code point (U+0178 -> U+00FF), every other character is unchanged.
LowerChar(c) ==
  IF \E i \in DOMAIN UpperAlpha : UpperAlpha[i] = c
    THEN LowerAlpha[CHOOSE i \in DOMAIN UpperAlpha : UpperAlpha[i] = c]
    ELSE c

\* str.lower()
Lower(s) == [i \in DOMAIN s |-> LowerChar(s[i])]

\* `kw in text` on strings: kw occurs as a contiguous substring of text
Contains(text, kw) ==
  \E i \in 0..(Len(text) - Len(kw)) :
    \A j \in 1..Len(kw) : text[i + j] = kw[j]

Whitespace == {" ", "\t", "\n"}

RECURSIVE LStrip(_)
LStrip(s) == IF s # <<>> /\ Head(s) \in Whitespace THEN LStrip(Tail(s)) ELSE s

RECURSIVE RStrip(_)
RStrip(s) ==
  IF s # <<>> /\ s[Len(s)] \in Whitespace
    THEN RStrip(SubSeq(s, 1, Len(s) - 1))
    ELSE s

\* str.strip()
Strip(s) == RStrip(LStrip(s))

\* str.split(','): the list of the parts between the commas, left to right
RECURSIVE SplitFrom(_, _)
SplitFrom(s, cur) ==
  IF s = <<>> THEN <<cur>>
  ELSE IF Head(s) = "," THEN <<cur>> \o SplitFrom(Tail(s), <<>>)
  ELSE SplitFrom(Tail(s), Append(cur, Head(s)))

Split(s) == SplitFrom(s, <<>>)

\* str.split(',', 1) on a string that contains a comma: the part before the
\* leftmost comma and the whole rest
RECURSIVE Split1From(_, _)
Split1From(s, cur) ==
  IF s = <<>> THEN <<cur>>
  ELSE IF Head(s) = "," THEN <<cur, Tail(s)>>
  ELSE Split1From(Tail(s), Append(cur, Head(s)))

Split1(s) == Split1From(s, <<>>)

\* -------------------------------------------------------------- keywords
MetroKeywords ==
  << <<"m","e","t","r","o">>,
     <<"U00E0","U00A4","U00AE","U00E0","U00A5","U2021","U00E0","U00A4","U0178",
       "U00E0","U00A5","U00E0","U00A4","U00B0","U00E0","U00A5","U2039">>,
     <<"s","u","b","w","a","y">>,
     <<"d","m","r","c">> >>

TrainKeywords ==
  << <<"t","r","a","i","n">>,
     <<"U00E0","U00A4","U0178","U00E0","U00A5","U00E0","U00A4","U00B0","U00E0",
       "U00A5","U2021","U00E0","U00A4","U00A8">>,
     <<"r","a","i","l","w","a","y">>,
     <<"i","r","c","t","c">>,
     <<"l","o","c","a","l"," ","t","r","a","i","n">> >>

AutoKeywords ==
  << <<"a","u","t","o">>,
     <<"U00E0","U00A4","U2018","U00E0","U00A4","U0178","U00E0","U00A5","U2039">>,
     <<"r","i","c","k","s","h","a","w">>,
     <<"t","h","r","e","e"," ","w","h","e","e","l","e","r">> >>

TaxiKeywords ==
  << <<"t","a","x","i">>,
     <<"U00E0","U00A4","U0178","U00E0","U00A5","U02C6","U00E0","U00A4","U2022",
       "U00E0","U00A5","U00E0","U00A4","U00B8","U00E0","U00A5","U20AC">>,
     <<"c","a","b">>,
     <<"o","l","a">>,
     <<"u","b","e","r">> >>

TransportTypes == {"bus", "metro", "train", "auto", "taxi"}

\* any(keyword in text for keyword in keywords)
AnyKeyword(text, keywords) ==
  \E k \in DOMAIN keywords : Contains(text, keywords[k])

\* ------------------------------------------------------ helper functions
determine_transport_type(text) ==
  LET t == Lower(text) IN
    IF AnyKeyword(t, MetroKeywords) THEN "metro"
    ELSE IF AnyKeyword(t, TrainKeywords) THEN "train"
    ELSE IF AnyKeyword(t, AutoKeywords) THEN "auto"
    ELSE IF AnyKeyword(t, TaxiKeywords) THEN "taxi"
    ELSE "bus"

\* The polarity is a rational num/den: 0.5 is 1/2, -0.5 is -1/2, 0 is 0/1.
determine_sentiment_score(label) ==
  LET l == Lower(label) IN
    IF l = <<"p","o","s","i","t","i","v","e">> THEN [num |-> 1, den |-> 2]
    ELSE IF l = <<"n","e","g","a","t","i","v","e">> THEN [num |-> -1, den |-> 2]
    ELSE [num |-> 0, den |-> 1]

\* the enricher's split applied to the aggregator: the part after the FIRST comma
extract_state_FirstComma(region) ==
  IF Contains(region, <<",">>)
    THEN Strip(Split1(region)[2])
    ELSE Strip(region)

extract_state_from_region(region) ==
  IF Contains(region, <<",">>)
    THEN LET parts == Split(region) IN Strip(parts[Len(parts)])
    ELSE Strip(region)

\* ------------------------------------------------------------ row fields
AbsentS == [tag |-> "absent", v |-> <<>>]
NullS   == [tag |-> "null", v |-> <<>>]
ValS(s) == [tag |-> "val", v |-> s]
AbsentN == [tag |-> "absent", v |-> 0]
NullN   == [tag |-> "null", v |-> 0]
ValN(n) == [tag |-> "val", v |-> n]

\* dict.get(key, default): the default only when the key is absent; a key
\* that is present with the value None yields None.
Get(field, default) ==
  IF field.tag = "absent" THEN [tag |-> "val", v |-> default] ELSE field

IsNone(x) == x.tag = "null"

Str_India   == <<"I","n","d","i","a">>
Str_Unknown == <<"U","n","k","n","o","w","n">>
Str_neutral == <<"n","e","u","t","r","a","l">>

\* ------------------------------------------------------------- responses
\* return jsonify(body)
JsonOk(endpoint, body) ==
  [endpoint |-> endpoint, kind |-> "json", status |-> 200, error |-> FALSE,
   body |-> body]

\* the handler without its except clause: the exception leaves the handler
HandleException_Propagates(endpoint) ==
  [endpoint |-> endpoint, kind |-> "unhandled", status |-> 500, error |-> FALSE,
   body |-> <<>>]

\* except Exception as e: return jsonify({"error": ...}), 500
HandleException(endpoint) ==
  [endpoint |-> endpoint, kind |-> "json", status |-> 500, error |-> TRUE,
   body |-> <<>>]

NoResponse ==
  [endpoint |-> "none", kind |-> "none", status |-> 0, error |-> FALSE,
   body |-> <<>>]

\* --------------------------------------------------------------- enricher
\* datetime.isoformat(): the timestamp rendered as an ISO-8601 string
IsoFormat(t) == [iso |-> t]

\* the body of the loop of get_tweets for one row; raised is TRUE when a
\* statement of the body raises (a method call or `in` on None)
Enrich(row, now) ==
  LET text       == Get(row.text, <<>>)
      region     == Get(row.region, Str_India)
      label      == Get(row.sentiment, Str_neutral)
      created_at == Get(row.created_at, now)
      raised     == \/ IsNone(text)         \* None.lower()
                    \/ IsNone(region)       \* ',' in None
                    \/ IsNone(created_at)   \* None.isoformat()
                    \/ IsNone(label)        \* None.lower()
      hasComma   == Contains(region.v, <<",">>)
      parts      == Split1(region.v)
      city       == IF hasComma THEN Strip(parts[1]) ELSE Strip(region.v)
      state      == IF hasComma THEN Strip(parts[2]) ELSE Strip(region.v)
  IN  IF raised
        THEN [raised |-> TRUE, tweet |-> <<>>]
        ELSE [raised |-> FALSE,
              tweet |->
                [id |-> row.id,
                 text |-> text.v,
                 timestamp |-> IsoFormat(created_at.v),
                 location |-> region.v,
                 state |-> state,
                 city |-> city,
                 transportType |-> determine_transport_type(text.v),
                 sentiment |->
                   [polarity |-> determine_sentiment_score(label.v),
                    label |-> label.v,
                    confidence |-> [num |-> 85, den |-> 100]]]]

\* for row in rows: ... tweets.append(...); the loop stops where a row raises
RECURSIVE EnrichAll(_, _, _)
EnrichAll(rows, now, tweets) ==
  IF rows = <<>> THEN [raised |-> FALSE, tweets |-> tweets]
  ELSE LET e == Enrich(Head(rows), now) IN
       IF e.raised THEN [raised |-> TRUE, tweets |-> tweets]
       ELSE EnrichAll(Tail(rows), now, Append(tweets, e.tweet))

\* ------------------------------------------------------------- aggregator
\* the defaultdict's factory: the bucket of a state that is first touched
NewBucket(state) ==
  [state |-> state, total_messages |-> 0, positive_count |-> 0,
   negative_count |-> 0, neutral_count |-> 0,
   transport_breakdown |-> [t \in TransportTypes |-> 0]]

\* state_data kept between requests (a module-level dictionary)
InitialStateData_Kept(old) == old

\* state_data = defaultdict(...): a fresh, empty dictionary for each request,
\* whatever the previous request left behind.  A dictionary is the sequence
\* of its buckets in insertion order.
InitialStateData(old) == <<>>

HasKey(sd, state) == \E i \in DOMAIN sd : sd[i].state = state

IndexOf(sd, state) == CHOOSE i \in DOMAIN sd : sd[i].state = state

\* a missing key inserted before the existing ones
Touch_Front(sd, state) ==
  IF HasKey(sd, state) THEN sd ELSE <<NewBucket(state)>> \o sd

\* state_data[state]: a missing key is inserted, after the existing ones
Touch(sd, state) == IF HasKey(sd, state) THEN sd ELSE Append(sd, NewBucket(state))

\* the transport pass also counting the record as a message of the state
CountTransport_CountsMessage(sd, tweet) ==
  LET region == Get(tweet.region, Str_Unknown)
      text   == Get(tweet.text, <<>>)
  IN  IF IsNone(region) \/ IsNone(text)
        THEN [raised |-> TRUE, sd |-> sd]
        ELSE LET state     == extract_state_from_region(region.v)
                 transport == determine_transport_type(text.v)
                 sd1       == Touch(sd, state)
                 i         == IndexOf(sd1, state)
             IN  [raised |-> FALSE,
                  sd |-> [sd1 EXCEPT ![i].transport_breakdown[transport] = @ + 1,
                                     ![i].total_messages = @ + 1]]

\* the body of the loop over all_tweets
CountTransport(sd, tweet) ==
  LET region == Get(tweet.region, Str_Unknown)
      text   == Get(tweet.text, <<>>)
  IN  IF IsNone(region) \/ IsNone(text)
        THEN [raised |-> TRUE, sd |-> sd]
        ELSE LET state     == extract_state_from_region(region.v)
                 transport == determine_transport_type(text.v)
                 sd1       == Touch(sd, state)
                 i         == IndexOf(sd1, state)
             IN  [raised |-> FALSE,
                  sd |-> [sd1 EXCEPT ![i].transport_breakdown[transport] = @ + 1]]

RECURSIVE TransportPass(_, _)
TransportPass(sd, tweets) ==
  IF tweets = <<>> THEN [raised |-> FALSE, sd |-> sd]
  ELSE LET r == CountTransport(sd, Head(tweets)) IN
       IF r.raised THEN r ELSE TransportPass(r.sd, Tail(tweets))

\* the body of the loop over the summary rows
AddSummary(sd, row) ==
  LET region   == Get(row.region, Str_Unknown)
      total    == Get(row.total_messages, 0)
      positive == Get(row.positive_count, 0)
      negative == Get(row.negative_count, 0)
      neutral  == Get(row.neutral_count, 0)
  IN  IF \/ IsNone(region)                       \* ',' in None
         \/ IsNone(total) \/ IsNone(positive)    \* int += None
         \/ IsNone(negative) \/ IsNone(neutral)
        THEN [raised |-> TRUE, sd |-> sd]
        ELSE LET state == extract_state_from_region(region.v)
                 sd1   == Touch(sd, state)
                 i     == IndexOf(sd1, state)
             IN  [raised |-> FALSE,
                  sd |-> [sd1 EXCEPT ![i].total_messages = @ + total.v,
                                     ![i].positive_count = @ + positive.v,
                                     ![i].negative_count = @ + negative.v,
                                     ![i].neutral_count = @ + neutral.v]]

RECURSIVE SummaryPass(_, _)
SummaryPass(sd, rows) ==
  IF rows = <<>> THEN [raised |-> FALSE, sd |-> sd]
  ELSE LET r == AddSummary(sd, Head(rows)) IN
       IF r.raised THEN r ELSE SummaryPass(r.sd, Tail(rows))

\* the score without the negative count
SentimentScore_NoNegative(data) ==
  [num |-> data.positive_count, den |-> data.total_messages]

\* the score without the division
SentimentScore_Undivided(data) ==
  [num |-> data.positive_count - data.negative_count, den |-> 1]

\* (positive_count - negative_count) / total_messages, as the rational num/den
SentimentScore(data) ==
  [num |-> data.positive_count - data.negative_count, den |-> data.total_messages]

\* the filter with >= in place of >
Emitted_NonNegative(data) == data.total_messages >= 0

\* if data['total_messages'] > 0
Emitted(data) == data.total_messages > 0

\* result.append({...})
BuildReport(data) ==
  [state |-> data.state,
   sentimentScore |-> SentimentScore(data),
   totalMessages |-> data.total_messages,
   transportBreakdown |-> data.transport_breakdown,
   sentimentBreakdown |->
     [positive |-> data.positive_count,
      negative |-> data.negative_count,
      neutral |-> data.neutral_count]]

\* for state, data in state_data.items(): in insertion order
RECURSIVE Finalize(_)
Finalize(sd) ==
  IF sd = <<>> THEN <<>>
  ELSE IF Emitted(Head(sd))
    THEN <<BuildReport(Head(sd))>> \o Finalize(Tail(sd))
    ELSE Finalize(Tail(sd))

\* the body of get_states_summary once both fetches succeeded
Aggregate(old, all_tweets, rows) ==
  LET p1 == TransportPass(InitialStateData(old), all_tweets)
      p2 == SummaryPass(p1.sd, rows)
  IN  IF p1.raised THEN [raised |-> TRUE, sd |-> p1.sd, result |-> <<>>]
      ELSE IF p2.raised THEN [raised |-> TRUE, sd |-> p2.sd, result |-> <<>>]
      ELSE [raised |-> FALSE, sd |-> p2.sd, result |-> Finalize(p2.sd)]

\* ----------------------------------------------------------------- inputs
Str_Delhi  == <<"D","e","l","h","i">>
Str_Pune   == <<"P","u","n","e",","," ","M","a","h","a","r","a","s","h","t","r","a">>
Str_Chain  == <<"M","u","m","b","a","i",","," ","M","a","h","a","r","a","s","h","t","r","a",
                ","," ","I","n","d","i","a">>
Str_Goa    == <<" ","G","o","a"," ">>
Str_Metro  == <<"M","e","t","r","o">>
Str_Cab    == <<"C","a","b">>
Str_k      == <<"k">>
Str_Positive == <<"P","o","s","i","t","i","v","e">>

\* the pieces the texts are made of: keywords in mixed case, the localized
\* metro keyword as the source spells it, a letter that is no keyword, and
\* two halves of a keyword
Fragments ==
  { Str_Metro, <<"T","r","a","i","n">>, <<"a","u","t","o">>, Str_Cab,
    Str_k, <<"u","b">>, <<"e","r">>, MetroKeywords[2] }

RECURSIVE TextsOfFrags(_)
TextsOfFrags(n) ==
  IF n = 0 THEN {<<>>}
  ELSE {t \o f : t \in TextsOfFrags(n - 1), f \in Fragments}

Texts == UNION {TextsOfFrags(n) : n \in 0..MaxFrags}

RawRecord(text, region, sentiment, created_at) ==
  [id |-> ValN(1), text |-> text, region |-> region, sentiment |-> sentiment,
   created_at |-> created_at]

BaseRecord == RawRecord(ValS(Str_Metro), ValS(Str_Delhi), ValS(Str_Positive), ValN(3))

\* one record per text
TextRecords == {[BaseRecord EXCEPT !.text = ValS(t)] : t \in Texts}

\* the base record with one field varied: region shapes, and each field
\* absent or None
FieldRecords ==
  {[BaseRecord EXCEPT !.region = r] :
     r \in {ValS(Str_Delhi), ValS(Str_Pune), ValS(Str_Chain), ValS(Str_Goa),
            AbsentS, NullS}}
  \cup {[BaseRecord EXCEPT !.text = t] : t \in {AbsentS, NullS}}
  \cup {[BaseRecord EXCEPT !.sentiment = l] :
          l \in {AbsentS, NullS}}
  \cup {[BaseRecord EXCEPT !.created_at = c] : c \in {AbsentN, NullN}}

\* records of two states
StateRecords ==
  { RawRecord(ValS(Str_Metro), ValS(Str_Delhi), ValS(Str_Positive), ValN(3)),
    RawRecord(ValS(Str_Cab), ValS(Str_Pune), ValS(Str_Positive), ValN(3)) }

SummaryRow(region, total, positive, negative, neutral) ==
  [region |-> region, total_messages |-> total, positive_count |-> positive,
   negative_count |-> negative, neutral_count |-> neutral]

DelhiRow == SummaryRow(ValS(Str_Delhi), ValN(3), ValN(2), ValN(0), ValN(1))

\* a row with counts, a row of no messages, a row of another state, a row of
\* a state no record names, and a row that lacks keys
SummaryRows ==
  { DelhiRow,
    SummaryRow(ValS(Str_Delhi), ValN(0), ValN(0), ValN(0), ValN(0)),
    SummaryRow(ValS(Str_Pune), ValN(2), ValN(0), ValN(1), ValN(1)),
    SummaryRow(ValS(Str_Chain), ValN(1), ValN(0), ValN(1), ValN(0)),
    SummaryRow(ValS(Str_Delhi), AbsentN, ValN(2), AbsentN, AbsentN) }

RECURSIVE SeqsOfLen(_, _)
SeqsOfLen(S, n) ==
  IF n = 0 THEN {<<>>}
  ELSE {Append(q, x) : q \in SeqsOfLen(S, n - 1), x \in S}

SeqsUpTo(S, n) == UNION {SeqsOfLen(S, k) : k \in 0..n}

\* what the two tables of the database hold: one record per text, or up to
\* MaxTweets records with a varied field and the summary row of their state,
\* or up to MaxTweets records of the states with up to MaxRows summary rows
Datasets ==
  ({<<r>> : r \in TextRecords} \X {<<>>})
  \cup (SeqsUpTo(FieldRecords, MaxTweets) \X {<<DelhiRow>>})
  \cup (SeqsUpTo(StateRecords, MaxTweets) \X SeqsUpTo(SummaryRows, MaxRows))

\* datetime.datetime.now()
NowTimes == {7}

\* db.get_recent_tweets(limit) / LIMIT: at most limit rows of the table
Take(s, limit) == IF Len(s) <= limit THEN s ELSE SubSeq(s, 1, limit)

\* ------------------------------------------------------------------ state
VARIABLES
  db_tweets,    \* the tweets table behind db.get_recent_tweets
  db_summary,   \* the rows behind db.get_state_summary
  calls,        \* the Data Access calls of the latest request, in order
  response,     \* the response of the latest request
  state_data,   \* state_data as the latest aggregation left it
  previous      \* the response before the latest one, when both are
                \* successful responses of GET /api/states

vars == <<db_tweets, db_summary, calls, response, state_data, previous>>

Init ==
  /\ \E d \in Datasets : db_tweets = d[1] /\ db_summary = d[2]
  /\ calls = <<>>
  /\ response = NoResponse
  /\ state_data = <<>>
  /\ previous = NoResponse

Call(fn, limit, ok) == [fn |-> fn, limit |-> limit, ok |-> ok]

\* GET /api/tweets
get_tweets ==
  \E fails \in BOOLEAN, now \in NowTimes :
    /\ calls' = <<Call("get_recent_tweets", 100, ~fails)>>
    /\ response' =
         IF fails THEN HandleException("tweets")
         ELSE LET r == EnrichAll(Take(db_tweets, 100), now, <<>>) IN
              IF r.raised THEN HandleException("tweets")
              ELSE JsonOk("tweets", r.tweets)
    /\ previous' = NoResponse
    /\ UNCHANGED <<db_tweets, db_summary, state_data>>

\* GET /api/states
get_states_summary ==
  \E failing \in {"none", "get_state_summary", "get_recent_tweets"} :
    /\ calls' =
         IF failing = "get_state_summary"
           THEN <<Call("get_state_summary", 0, FALSE)>>
           ELSE <<Call("get_state_summary", 0, TRUE),
                  Call("get_recent_tweets", 10000, failing = "none")>>
    /\ IF failing # "none"
         THEN /\ response' = HandleException("states")
              /\ previous' = NoResponse
              /\ UNCHANGED state_data
         ELSE LET a == Aggregate(state_data, Take(db_tweets, 10000), db_summary) IN
              /\ state_data' = a.sd
              /\ IF a.raised
                   THEN /\ response' = HandleException("states")
                        /\ previous' = NoResponse
                   ELSE /\ response' = JsonOk("states", a.result)
                        /\ previous' =
                             IF response.endpoint = "states" /\ response.status = 200
                               THEN response ELSE NoResponse
    /\ UNCHANGED <<db_tweets, db_summary>>

Next == get_tweets \/ get_states_summary

Spec == Init /\ [][Next]_vars

\* ------------------------------------------------- what the claims speak of
TweetsOk == response.endpoint = "tweets" /\ response.status = 200
StatesOk == response.endpoint = "states" /\ response.status = 200

\* the state a summary row / a record maps to, and a count of a summary row
RowState(row)      == extract_state_from_region(Get(row.region, Str_Unknown).v)
RowCount(row, key) == Get(row[key], 0).v
RowsOf(state)      == {i \in DOMAIN db_summary : RowState(db_summary[i]) = state}
RecordsOf(state)   == {i \in DOMAIN db_tweets : RowState(db_tweets[i]) = state}
RecordType(i)      == determine_transport_type(Get(db_tweets[i].text, <<>>).v)

RECURSIVE SumCounts(_, _)
SumCounts(rowIndexes, key) ==
  IF rowIndexes = {} THEN 0
  ELSE LET i == CHOOSE i \in rowIndexes : TRUE IN
       RowCount(db_summary[i], key) + SumCounts(rowIndexes \ {i}, key)

Total(state, key) == SumCounts(RowsOf(state), key)

Reports == {response.body[k] : k \in DOMAIN response.body}

\* C1: every emitted StateReport has sentimentScore * totalMessages =
\* positive - negative with totalMessages > 0, where the three are the sums of
\* total_messages, positive_count and negative_count over the summary rows
\* whose region maps to the report's state.
C1_ScoreIsRatio ==
  StatesOk =>
    \A r \in Reports :
      LET T == Total(r.state, "total_messages")
          P == Total(r.state, "positive_count")
          N == Total(r.state, "negative_count")
      IN  /\ T > 0
          /\ r.totalMessages = T
          /\ r.sentimentScore.den # 0
          /\ r.sentimentScore.num * T = (P - N) * r.sentimentScore.den

\* two rows of one state are summed into a report with a non-zero score
C1_Witness ==
  /\ StatesOk
  /\ \E r \in Reports :
       /\ Cardinality(RowsOf(r.state)) >= 2
       /\ \A i \in RowsOf(r.state) : RowCount(db_summary[i], "total_messages") > 0
       /\ Total(r.state, "negative_count") # 0

InRange(score) ==
  /\ score.den > 0
  /\ - score.den <= score.num
  /\ score.num <= score.den

\* a row whose counts are consistent: non-negative, and positive + negative
\* within total_messages (an absent key counts as 0)
WellFormedRow(row) ==
  /\ RowCount(row, "positive_count") >= 0
  /\ RowCount(row, "negative_count") >= 0
  /\ RowCount(row, "positive_count") + RowCount(row, "negative_count")
       <= RowCount(row, "total_messages")

\* C2 as stated: every emitted StateReport has a sentimentScore in [-1, 1],
\* whatever summary rows the Data Access collaborator returns.
C2_ScoreInRange_AnyRows == StatesOk => \A r \in Reports : InRange(r.sentimentScore)

\* C2 amended: an emitted StateReport has a sentimentScore in [-1, 1] when every
\* summary row of its state has non-negative positive and negative counts
\* whose sum is within its total_messages.
C2_ScoreInRange_WellFormedRows ==
  StatesOk =>
    \A r \in Reports :
      (\A i \in RowsOf(r.state) : WellFormedRow(db_summary[i]))
        => InRange(r.sentimentScore)

\* a report built from consistent rows only, with a score that is not zero
C2_Witness ==
  /\ StatesOk
  /\ \E r \in Reports :
       /\ \A i \in RowsOf(r.state) : WellFormedRow(db_summary[i])
       /\ Cardinality(RowsOf(r.state)) >= 2
       /\ r.sentimentScore.num # 0

\* every state a record or a summary row maps to
AllStates ==
  {RowState(db_tweets[i]) : i \in DOMAIN db_tweets}
    \cup {RowState(db_summary[i]) : i \in DOMAIN db_summary}

ReportsOf(state) == {k \in DOMAIN response.body : response.body[k].state = state}

\* C5: a state is absent from the output whenever its accumulated
\* total_messages is not greater than zero (its only row has total 0, or it
\* appears only in the records); every state with an accumulated total > 0
\* appears exactly once; no other state appears.
C5_ExclusionOfEmptyStates ==
  StatesOk =>
    /\ \A s \in AllStates :
         IF Total(s, "total_messages") > 0
           THEN Cardinality(ReportsOf(s)) = 1
           ELSE ReportsOf(s) = {}
    /\ \A r \in Reports : r.state \in AllStates

\* one state is reported, a state with a single row of total 0 is left out and
\* so is a state that only the records name
C5_Witness ==
  /\ StatesOk
  /\ response.body # <<>>
  /\ \E s \in AllStates :
       /\ Cardinality(RowsOf(s)) = 1
       /\ \A i \in RowsOf(s) : RowCount(db_summary[i], "total_messages") = 0
       /\ ReportsOf(s) = {}
  /\ \E s \in AllStates : RowsOf(s) = {} /\ RecordsOf(s) # {} /\ ReportsOf(s) = {}

\* the states in the order the two passes meet them: records, then summary rows
Appearance ==
  [i \in 1..Len(db_tweets) |-> RowState(db_tweets[i])]
    \o [i \in 1..Len(db_summary) |-> RowState(db_summary[i])]

FirstSeen(state) ==
  CHOOSE i \in DOMAIN Appearance :
    Appearance[i] = state /\ \A j \in 1..(i - 1) : Appearance[j] # state

\* C6: the reports are in the order in which their states were first met,
\* records (in record order) before summary rows (in row order).
C6_InsertionOrder ==
  StatesOk =>
    \A i, j \in DOMAIN response.body :
      i < j => FirstSeen(response.body[i].state) < FirstSeen(response.body[j].state)

\* two reports whose summary rows come in the opposite order: the first
\* state was met in the records, the second only in the summary rows, and a
\* state met in between is filtered out
C6_Witness ==
  /\ StatesOk
  /\ \E i, j \in DOMAIN response.body :
       LET a == response.body[i].state
           b == response.body[j].state
       IN  /\ i < j
           /\ RecordsOf(a) # {}
           /\ RecordsOf(b) = {}
           /\ \A x \in RowsOf(a), y \in RowsOf(b) : y < x
  /\ \E s \in AllStates : ReportsOf(s) = {} /\ RecordsOf(s) # {}

RECURSIVE SumOver(_, _)
SumOver(f, keys) ==
  IF keys = {} THEN 0
  ELSE LET k == CHOOSE k \in keys : TRUE IN f[k] + SumOver(f, keys \ {k})

\* C10: in every report the transportBreakdown has exactly the five transport
\* types, each count is the number of fetched records of that state and type,
\* the counts sum to the number of fetched records of the state, and
\* totalMessages and the sentiment counts come from the summary rows alone.
C10_TransportBreakdown ==
  StatesOk =>
    \A r \in Reports :
      /\ DOMAIN r.transportBreakdown = TransportTypes
      /\ \A t \in TransportTypes :
           r.transportBreakdown[t] =
             Cardinality({i \in RecordsOf(r.state) : RecordType(i) = t})
      /\ SumOver(r.transportBreakdown, TransportTypes) = Cardinality(RecordsOf(r.state))
      /\ r.totalMessages = Total(r.state, "total_messages")
      /\ r.sentimentBreakdown.positive = Total(r.state, "positive_count")
      /\ r.sentimentBreakdown.negative = Total(r.state, "negative_count")
      /\ r.sentimentBreakdown.neutral = Total(r.state, "neutral_count")

\* a report with records of two transport types whose number differs from
\* totalMessages
C10_Witness ==
  /\ StatesOk
  /\ \E r \in Reports :
       /\ Cardinality({t \in TransportTypes : r.transportBreakdown[t] > 0}) >= 2
       /\ SumOver(r.transportBreakdown, TransportTypes) # r.totalMessages

Tweets == {response.body[k] : k \in DOMAIN response.body}

FetchFailed == \E i \in DOMAIN calls : ~calls[i].ok

\* C3: enriching never fails: whenever the fetch of GET /api/tweets succeeds,
\* the response is no error and holds one EnrichedTweet per record, also for
\* records with a field that is absent or None.
C3_EnrichNeverFails ==
  (response.endpoint = "tweets" /\ ~FetchFailed) =>
    /\ response.status = 200
    /\ Len(response.body) = Len(db_tweets)

\* C4: when a Data Access call fails, GET /api/tweets and GET /api/states end
\* with an {error} body and HTTP 500 that holds no EnrichedTweet or
\* StateReport, the failure does not leave the handler, the failed call is the
\* last one made and no call is made twice.
C4_FetchFailureIsError ==
  (response.endpoint \in {"tweets", "states"} /\ FetchFailed) =>
    /\ response.kind = "json"
    /\ response.status = 500
    /\ response.error
    /\ response.body = <<>>
    /\ \A i \in DOMAIN calls : ~calls[i].ok => i = Len(calls)
    /\ \A i, j \in DOMAIN calls : calls[i].fn = calls[j].fn => i = j

\* the summary was fetched and the fetch of the records then failed, over
\* tables from which reports would have been built
C4_Witness ==
  /\ response.endpoint = "states"
  /\ Len(calls) = 2
  /\ calls[1].ok /\ ~calls[2].ok
  /\ db_tweets # <<>>
  /\ \E i \in DOMAIN db_summary : RowCount(db_summary[i], "total_messages") > 0

\* a keyword of the list occurs in the text, whatever the case of either
OccursIn(text, keywords) ==
  \E k \in DOMAIN keywords : Contains(Lower(text), Lower(keywords[k]))

\* C7: the transport type follows the priority metro > train > auto > taxi > bus
\* over case-insensitive substring matches: metro when a metro keyword occurs,
\* a lower type only when no keyword of a higher list occurs, bus exactly when
\* no keyword occurs.
C7_KeywordPriority ==
  TweetsOk =>
    \A t \in Tweets :
      t.transportType =
        IF OccursIn(t.text, MetroKeywords) THEN "metro"
        ELSE IF OccursIn(t.text, TrainKeywords) THEN "train"
        ELSE IF OccursIn(t.text, AutoKeywords) THEN "auto"
        ELSE IF OccursIn(t.text, TaxiKeywords) THEN "taxi"
        ELSE "bus"

Commas(s) == {i \in DOMAIN s : s[i] = ","}

\* s without its leading and trailing whitespace
Trimmed(s) ==
  LET solid == {i \in DOMAIN s : s[i] \notin Whitespace} IN
    IF solid = {} THEN <<>>
    ELSE SubSeq(s, CHOOSE a \in solid : \A x \in solid : a <= x,
                   CHOOSE b \in solid : \A x \in solid : x <= b)

Before(s, i) == Trimmed(SubSeq(s, 1, i - 1))
After(s, i)  == Trimmed(SubSeq(s, i + 1, Len(s)))

\* C8: the enricher splits the region on its FIRST comma into (city, state),
\* extractState takes the part after the LAST comma, both trimmed; without a
\* comma each is the trimmed region; with at most one comma both states agree;
\* "Mumbai, Maharashtra, India" gives "Maharashtra, India" and "India"; and
\* the aggregator reports under the state after the last comma.
C8_TwoSplitPolicies ==
  /\ TweetsOk =>
       \A t \in Tweets :
         LET region == t.location
             first  == CHOOSE i \in Commas(region) : \A x \in Commas(region) : i <= x
             last   == CHOOSE i \in Commas(region) : \A x \in Commas(region) : x <= i
         IN  /\ Commas(region) = {} =>
                  /\ t.city = Trimmed(region)
                  /\ t.state = Trimmed(region)
                  /\ extract_state_from_region(region) = Trimmed(region)
             /\ Commas(region) # {} =>
                  /\ t.city = Before(region, first)
                  /\ t.state = After(region, first)
                  /\ extract_state_from_region(region) = After(region, last)
             /\ Cardinality(Commas(region)) <= 1 =>
                  t.state = extract_state_from_region(region)
             /\ region = Str_Chain =>
                  /\ t.city = <<"M","u","m","b","a","i">>
                  /\ t.state = <<"M","a","h","a","r","a","s","h","t","r","a",",",
                                 " ","I","n","d","i","a">>
                  /\ extract_state_from_region(region) = Str_India
  /\ StatesOk =>
       \A r \in Reports :
         \E i \in DOMAIN db_summary :
           LET region == Get(db_summary[i].region, Str_Unknown).v IN
             r.state = IF Commas(region) = {} THEN Trimmed(region)
                       ELSE After(region, CHOOSE c \in Commas(region) :
                                            \A x \in Commas(region) : x <= c)

\* a region with two commas, one with one comma and padded one were enriched
C8_Witness ==
  /\ TweetsOk
  /\ \E t \in Tweets : Cardinality(Commas(t.location)) = 2 /\ t.state # Str_India
  /\ \E t \in Tweets : Cardinality(Commas(t.location)) <= 1

\* C9: two successive GET /api/states over the same tables give the same
\* body, in order and in values: nothing of the first run's counts is left in
\* the second.
C9_SameOutputTwice ==
  (StatesOk /\ previous.endpoint = "states") => response.body = previous.body

\* the second of two successive aggregations, with counts from both passes
C9_Witness ==
  /\ StatesOk
  /\ previous.endpoint = "states"
  /\ \E r \in Reports : SumOver(r.transportBreakdown, TransportTypes) > 0

====
